---------------------------- MODULE Spec2Model ----------------------------
(***************************************************************************)
(* A model of philips_hue_lab (src/main.rs): one invocation of the command *)
(* line client against a Hue Bridge.  The bridge and the transport are the *)
(* environment: every request ends in a transport failure or in a JSON     *)
(* value drawn from a bounded set of raw values, well formed or not.       *)
(*                                                                         *)
(* Strings that the program inspects character by character (names, ids,   *)
(* the id-or-name argument) are sequences of one-character strings, and so *)
(* is every JSON string payload.  Object keys and messages are TLA+        *)
(* strings.                                                                *)
(***************************************************************************)
EXTENDS Integers, Sequences, FiniteSets, TLC

VARIABLES
    pc,         \* position of main
    sent,       \* the requests issued so far, in order
    response,   \* the JSON value the last request returned
    errors,     \* what parse_api_response_errors returned for response
    devices,    \* what list_devices returned, until control_light is called
    id_or_name, \* the positional argument of the light subcommand
    light,      \* what find_light_by_id_or_name returned
    args,       \* the on and dimming_level that control_light was called with
    body,       \* the serialized body of the PUT
    outcome     \* what main returned, or a panic

vars == <<pc, sent, response, errors, devices, id_or_name, light, args, body, outcome>>

----------------------------------------------------------------------------
(* Bounds of the model.                                                    *)

MaxLegacyLen == 2
MaxDevices == 2
MaxServices == 2

----------------------------------------------------------------------------
(* serde_json::Value                                                       *)

JNull == [t |-> "null"]
\* a number; i64 tells whether it is representable as an i64
JNum(n) == [t |-> "number", n |-> n, i64 |-> TRUE]
\* a number written with a fraction, as an f32 is serialized
JFloat(n) == [t |-> "number", n |-> n, i64 |-> FALSE]
JBool(b) == [t |-> "bool", b |-> b]
JStr(s) == [t |-> "string", s |-> s]
JArr(a) == [t |-> "array", a |-> a]
JObj(o) == [t |-> "object", o |-> o]
EmptyObj == JObj([k \in {} |-> JNull])

is_array(v) == v.t = "array"
is_object(v) == v.t = "object"
is_string(v) == v.t = "string"
\* Value::get with a string index: None on anything but an object
has_key(v, key) == is_object(v) /\ key \in DOMAIN v.o

\* A derived Deserialize struct is read from an object by field name (unknown
\* keys are ignored) or from an array of exactly the struct's fields in order.
HasField(v, key, nfields) ==
    \/ is_object(v) /\ key \in DOMAIN v.o
    \/ is_array(v) /\ Len(v.a) = nfields
Field(v, key, idx) == IF is_object(v) THEN v.o[key] ELSE v.a[idx]

SeqsUpTo(S, n) == UNION { [1..k -> S] : k \in 0..n }

None == [some |-> FALSE]
Some(x) == [some |-> TRUE, v |-> x]

Panic(at) == [kind |-> "Panic", at |-> at]

----------------------------------------------------------------------------
(* HueApiErrorMessage and HueApiCreateKeySuccessDetails                    *)

DecodesErrorMessage(v) ==
    /\ HasField(v, "type", 3)
    /\ HasField(v, "address", 3)
    /\ HasField(v, "description", 3)
    /\ Field(v, "type", 1).t = "number" /\ Field(v, "type", 1).i64
    /\ is_string(Field(v, "address", 2))
    /\ is_string(Field(v, "description", 3))

HueApiErrorMessage(v) ==
    [type_value |-> Field(v, "type", 1).n,
     address |-> Field(v, "address", 2).s,
     description |-> Field(v, "description", 3).s]

DecodesCreateKeySuccessDetails(v) ==
    /\ HasField(v, "username", 1)
    /\ is_string(Field(v, "username", 1))

HueApiCreateKeySuccessDetails(v) == [user_name |-> Field(v, "username", 1).s]

----------------------------------------------------------------------------
(* parse_api_response_errors                                               *)

\* the elements the filter_map closure matches with (true, Some(details))
ErrorDetails(json) ==
    LET hit == SelectSeq(json.a, LAMBDA e : has_key(e, "error"))
    IN  [i \in 1..Len(hit) |-> hit[i].o["error"]]

\* from_value(..).unwrap() panics on the first details that do not decode
parse_api_response_errors(json) ==
    IF is_array(json)
    THEN LET details == ErrorDetails(json)
         IN  IF \E i \in 1..Len(details) : ~DecodesErrorMessage(details[i])
             THEN Panic("unwrap")
             ELSE [kind |-> "Vec",
                   vec |-> [i \in 1..Len(details) |-> HueApiErrorMessage(details[i])]]
    ELSE [kind |-> "Vec", vec |-> <<>>]

----------------------------------------------------------------------------
(* parse_create_key_response                                               *)

HueError(msg, cause) == [kind |-> "Err", msg |-> msg, cause |-> cause]
Ok(x) == [kind |-> "Ok", v |-> x]

parse_create_key_response(json) ==
    LET errs == parse_api_response_errors(json)
    IN  IF errs.kind = "Panic" THEN errs
        ELSE IF errs.vec # <<>>
        THEN HueError("Could not create key.", Some(Head(errs.vec)))
        ELSE IF is_array(json)
        THEN IF Len(json.a) = 0 THEN Panic("unwrap")          \* get(0).unwrap()
             ELSE IF ~is_object(json.a[1]) THEN Panic("unwrap") \* as_object().unwrap()
             ELSE IF ~has_key(json.a[1], "success")
             THEN HueError("Could not create key. success element not found in response array.", None)
             ELSE LET details_json == json.a[1].o["success"]
                  IN  IF DecodesCreateKeySuccessDetails(details_json)
                      THEN Ok(HueApiCreateKeySuccessDetails(details_json))
                      ELSE HueError("serde_json::Error", Some("serde_json::Error"))
        ELSE Panic("unimplemented")

----------------------------------------------------------------------------
(* HueApiDeviceResponse and its parts                                      *)

DecodesDeviceService(v) ==
    /\ HasField(v, "rid", 2)
    /\ HasField(v, "rtype", 2)
    /\ is_string(Field(v, "rid", 1))
    /\ is_string(Field(v, "rtype", 2))

HueApiDeviceService(v) == [rid |-> Field(v, "rid", 1).s, rtype |-> Field(v, "rtype", 2).s]

DecodesDeviceProductData(v) ==
    /\ HasField(v, "model_id", 2)
    /\ HasField(v, "product_name", 2)
    /\ is_string(Field(v, "model_id", 1))
    /\ is_string(Field(v, "product_name", 2))

DecodesDeviceMetadata(v) ==
    /\ HasField(v, "name", 1)
    /\ is_string(Field(v, "name", 1))

DecodesDeviceData(v) ==
    /\ HasField(v, "id", 4)
    /\ HasField(v, "product_data", 4)
    /\ HasField(v, "metadata", 4)
    /\ HasField(v, "services", 4)
    /\ is_string(Field(v, "id", 1))
    /\ DecodesDeviceProductData(Field(v, "product_data", 2))
    /\ DecodesDeviceMetadata(Field(v, "metadata", 3))
    /\ is_array(Field(v, "services", 4))
    /\ \A i \in 1..Len(Field(v, "services", 4).a) :
          DecodesDeviceService(Field(v, "services", 4).a[i])

HueApiDeviceData(v) ==
    [id |-> Field(v, "id", 1).s,
     product_name |-> Field(Field(v, "product_data", 2), "product_name", 2).s,
     name |-> Field(Field(v, "metadata", 3), "name", 1).s,
     services |-> LET a == Field(v, "services", 4).a
                  IN  [i \in 1..Len(a) |-> HueApiDeviceService(a[i])]]

DecodesDeviceResponse(v) ==
    /\ HasField(v, "errors", 2)
    /\ HasField(v, "data", 2)
    /\ is_array(Field(v, "errors", 1))
    /\ \A i \in 1..Len(Field(v, "errors", 1).a) : DecodesErrorMessage(Field(v, "errors", 1).a[i])
    /\ is_array(Field(v, "data", 2))
    /\ \A i \in 1..Len(Field(v, "data", 2).a) : DecodesDeviceData(Field(v, "data", 2).a[i])

HueApiDeviceResponse(v) ==
    [errors |-> LET a == Field(v, "errors", 1).a
                IN  [i \in 1..Len(a) |-> HueApiErrorMessage(a[i])],
     data |-> LET a == Field(v, "data", 2).a
              IN  [i \in 1..Len(a) |-> HueApiDeviceData(a[i])]]

----------------------------------------------------------------------------
(* parse_list_devices_response                                             *)

S_light == <<"l", "i", "g", "h", "t">>

\* services.iter().find(|s| s.rtype == "light").map(|s| LightId(s.rid.clone()))
\* FindLightService taking the last light service instead of the first
FindLightService_last(services) ==
    LET hits == { i \in 1..Len(services) : services[i].rtype = S_light }
    IN  IF hits = {} THEN None
        ELSE Some(services[CHOOSE i \in hits : \A j \in hits : i >= j].rid)

FindLightService(services) ==
    LET hits == { i \in 1..Len(services) : services[i].rtype = S_light }
    IN  IF hits = {} THEN None
        ELSE Some(services[CHOOSE i \in hits : \A j \in hits : i <= j].rid)

DeviceInfo(d) ==
    [id |-> d.id,
     name |-> d.name,
     product_name |-> d.product_name,
     light_id |-> FindLightService(d.services)]

\* parse_list_devices_response without the look at parsed.errors
parse_list_devices_response_ignoring_errors(json_response) ==
    IF ~DecodesDeviceResponse(json_response)
    THEN HueError("serde_json::Error", Some("serde_json::Error"))
    ELSE LET parsed == HueApiDeviceResponse(json_response)
         IN  Ok([i \in 1..Len(parsed.data) |-> DeviceInfo(parsed.data[i])])

parse_list_devices_response(json_response) ==
    IF ~DecodesDeviceResponse(json_response)
    THEN HueError("serde_json::Error", Some("serde_json::Error"))
    ELSE LET parsed == HueApiDeviceResponse(json_response)
         IN  IF parsed.errors = <<>>
             THEN Ok([i \in 1..Len(parsed.data) |-> DeviceInfo(parsed.data[i])])
             ELSE HueError("Response has errors", None)

----------------------------------------------------------------------------
(* find_light_by_id_or_name, after list_devices has returned               *)

\* char::to_lowercase on the letters of the model's alphabet
LowerChar(c) ==
    CASE c = "K" -> "k"
      [] c = "A" -> "a"
      [] c = "H" -> "h"
      [] OTHER -> c

to_lowercase(s) == [i \in 1..Len(s) |-> LowerChar(s[i])]

\* str::contains: needle occurs in hay as a contiguous run (always, when empty)
contains(hay, needle) ==
    \E i \in 0..(Len(hay) - Len(needle)) : SubSeq(hay, i + 1, i + Len(needle)) = needle

\* Vec<String>::join
RECURSIVE join(_, _)
join(strs, sep) ==
    IF Len(strs) = 0 THEN <<>>
    ELSE IF Len(strs) = 1 THEN strs[1]
    ELSE strs[1] \o sep \o join(Tail(strs), sep)

\* format!("{} ({})", info.name, info.id)
MatchInfo(info) == info.name \o <<" ", "(">> \o info.id \o <<")">>

Format(fmt, a) == [fmt |-> fmt, args |-> a]

\* the second loop: devices with a light whose lower-cased name contains the query
NameMatches(devs, name_query) ==
    SelectSeq(devs, LAMBDA d : d.light_id.some /\ contains(to_lowercase(d.name), name_query))

\* find_light_by_id_or_name with the name search before the id comparison
find_light_name_first(devs, token) ==
    LET direct == { i \in 1..Len(devs) : devs[i].light_id.some /\ devs[i].light_id.v = token }
        matches == NameMatches(devs, to_lowercase(token))
    IN  IF Len(matches) = 1
        THEN Ok(matches[1].light_id.v)
        ELSE IF Len(matches) > 1
        THEN HueError(
                Format("Multiple lights found matching '{}'. Please be more specific or use the light ID directly: {}",
                       <<token, join([i \in 1..Len(matches) |-> MatchInfo(matches[i])], <<",", " ">>)>>),
                None)
        ELSE IF direct # {}
        THEN Ok(devs[CHOOSE i \in direct : \A j \in direct : i <= j].light_id.v)
        ELSE HueError(Format("No light found with ID or name matching '{}'", <<token>>), None)

\* find_light_by_id_or_name taking the first of several name matches
find_light_pick_first(devs, token) ==
    LET direct == { i \in 1..Len(devs) : devs[i].light_id.some /\ devs[i].light_id.v = token }
        matches == NameMatches(devs, to_lowercase(token))
    IN  IF direct # {}
        THEN Ok(devs[CHOOSE i \in direct : \A j \in direct : i <= j].light_id.v)
        ELSE IF Len(matches) = 0
        THEN HueError(Format("No light found with ID or name matching '{}'", <<token>>), None)
        ELSE Ok(matches[1].light_id.v)

\* find_light_by_id_or_name reporting the lower-cased query when nothing matches
find_light_lowercased_message(devs, token) ==
    LET direct == { i \in 1..Len(devs) : devs[i].light_id.some /\ devs[i].light_id.v = token }
        matches == NameMatches(devs, to_lowercase(token))
    IN  IF direct # {}
        THEN Ok(devs[CHOOSE i \in direct : \A j \in direct : i <= j].light_id.v)
        ELSE IF Len(matches) = 0
        THEN HueError(Format("No light found with ID or name matching '{}'", <<to_lowercase(token)>>), None)
        ELSE IF Len(matches) = 1
        THEN Ok(matches[1].light_id.v)
        ELSE HueError(
                Format("Multiple lights found matching '{}'. Please be more specific or use the light ID directly: {}",
                       <<token, join([i \in 1..Len(matches) |-> MatchInfo(matches[i])], <<",", " ">>)>>),
                None)

\* find_light_by_id_or_name taking the argument for a light id when nothing matches
find_light_passthrough(devs, token) ==
    LET direct == { i \in 1..Len(devs) : devs[i].light_id.some /\ devs[i].light_id.v = token }
        matches == NameMatches(devs, to_lowercase(token))
    IN  IF direct # {}
        THEN Ok(devs[CHOOSE i \in direct : \A j \in direct : i <= j].light_id.v)
        ELSE IF Len(matches) = 0
        THEN Ok(token)
        ELSE IF Len(matches) = 1
        THEN Ok(matches[1].light_id.v)
        ELSE HueError(
                Format("Multiple lights found matching '{}'. Please be more specific or use the light ID directly: {}",
                       <<token, join([i \in 1..Len(matches) |-> MatchInfo(matches[i])], <<",", " ">>)>>),
                None)

find_light_by_id_or_name(devs, token) ==
    LET direct == { i \in 1..Len(devs) : devs[i].light_id.some /\ devs[i].light_id.v = token }
        matches == NameMatches(devs, to_lowercase(token))
    IN  IF direct # {}
        THEN Ok(devs[CHOOSE i \in direct : \A j \in direct : i <= j].light_id.v)
        ELSE IF Len(matches) = 0
        THEN HueError(Format("No light found with ID or name matching '{}'", <<token>>), None)
        ELSE IF Len(matches) = 1
        THEN Ok(matches[1].light_id.v)
        ELSE HueError(
                Format("Multiple lights found matching '{}'. Please be more specific or use the light ID directly: {}",
                       <<token, join([i \in 1..Len(matches) |-> MatchInfo(matches[i])], <<",", " ">>)>>),
                None)

----------------------------------------------------------------------------
(* control_light and LightControlRequestBody                               *)

U8Max == 255
DimMax == 100
ClapDimMax == 100

clamp(level, lo, hi) == IF level < lo THEN lo ELSE IF level > hi THEN hi ELSE level

\* LightDimmingState without the clamp
LightDimmingState_unclamped(dimming_level) ==
    IF dimming_level.some
    THEN Some([brightness |-> dimming_level.v])
    ELSE None

\* dimming_level.map(|level| LightDimmingState { brightness: f32::from(level.clamp(0, 100)) })
\* f32::from(u8) is exact
LightDimmingState(dimming_level) ==
    IF dimming_level.some
    THEN Some([brightness |-> clamp(dimming_level.v, 0, DimMax)])
    ELSE None

\* serde_json::to_string of the body, as the JSON value it writes:
\* dimming is skipped when it is None
LightControlRequestBody(on, dimming) ==
    JObj([k \in {"on"} \cup (IF dimming.some THEN {"dimming"} ELSE {}) |->
            IF k = "on"
            THEN JObj([k2 \in {"on"} |-> JBool(on)])
            ELSE JObj([k2 \in {"brightness"} |-> JFloat(dimming.v.brightness)])])

----------------------------------------------------------------------------
(* The bridge's answers to POST /api                                       *)

Str(s) == JStr(s)
S_slash == <<"/">>
S_link == <<"l", "i", "n", "k">>
S_key == <<"k", "e", "y">>

ErrorJson(code) ==
    JObj([k \in {"type", "address", "description"} |->
            CASE k = "type" -> JNum(code)
              [] k = "address" -> Str(S_slash)
              [] k = "description" -> Str(S_link)])

SuccessJson == JObj([k \in {"username"} |-> Str(S_key)])

LegacyElements ==
    { JNum(7),
      EmptyObj,
      JObj([k \in {"error"} |-> ErrorJson(101)]),
      JObj([k \in {"error"} |-> ErrorJson(1)]),
      JObj([k \in {"error"} |-> JArr(<<JNum(3), Str(S_slash), Str(S_link)>>)]),
      JObj([k \in {"error"} |-> JObj([k2 \in {"type"} |-> JNum(101)])]),
      JObj([k \in {"success"} |-> SuccessJson]),
      JObj([k \in {"success"} |-> EmptyObj]),
      JObj([k \in {"error", "success"} |->
              IF k = "error" THEN ErrorJson(101) ELSE SuccessJson]) }

LegacyResponses ==
    { JNull, EmptyObj, Str(S_key) }
        \cup { JArr(a) : a \in SeqsUpTo(LegacyElements, MaxLegacyLen) }

----------------------------------------------------------------------------
(* The bridge's answers to GET /clip/v2/resource/device and to the PUT     *)

S_zigbee == <<"z", "i", "g", "b", "e", "e">>
S_model == <<"m">>
S_product == <<"p">>

DeviceIds == { <<"d">>, <<"x">> }
DeviceNames == { <<"K", "a">>, <<"h">> }

ServiceJson(rid, rtype) ==
    JObj([k \in {"rid", "rtype"} |-> IF k = "rid" THEN Str(rid) ELSE Str(rtype)])

Services ==
    { ServiceJson(<<"x">>, S_light),
      ServiceJson(<<"k">>, S_light),
      ServiceJson(<<"z">>, S_zigbee) }

DeviceJson(id, name, services) ==
    JObj([k \in {"id", "product_data", "metadata", "services"} |->
            CASE k = "id" -> Str(id)
              [] k = "product_data" ->
                    JObj([k2 \in {"model_id", "product_name"} |->
                            IF k2 = "model_id" THEN Str(S_model) ELSE Str(S_product)])
              [] k = "metadata" -> JObj([k2 \in {"name"} |-> Str(name)])
              [] k = "services" -> JArr(services)])

\* every service list on one device, and every id and name with one service
DeviceEntries ==
    { DeviceJson(<<"d">>, <<"K", "a">>, sv) : sv \in SeqsUpTo(Services, MaxServices) }
        \cup { DeviceJson(id, name, <<sv>>) : id \in DeviceIds, name \in DeviceNames, sv \in Services }

Envelope(errs, data) ==
    JObj([k \in {"errors", "data"} |-> IF k = "errors" THEN JArr(errs) ELSE JArr(data)])

ErrorLists == { <<ErrorJson(3)>>, <<ErrorJson(3), ErrorJson(1)>>, <<EmptyObj>> }

MalformedResponses ==
    { JNull,
      EmptyObj,
      JObj([k \in {"errors"} |-> JArr(<<>>)]),
      JObj([k \in {"data"} |-> JArr(<<>>)]),
      Envelope(<<>>, <<JNum(7)>>),
      Envelope(<<>>, <<JObj([k \in {"id"} |-> Str(<<"d">>)])>>),
      JObj([k \in {"errors", "data"} |-> IF k = "errors" THEN JNull ELSE JArr(<<>>)]),
      JArr(<<JArr(<<>>), JArr(<<>>)>>) }

DeviceResponses ==
    { Envelope(<<>>, data) : data \in SeqsUpTo(DeviceEntries, MaxDevices) }
        \cup { Envelope(errs, data) : errs \in ErrorLists, data \in SeqsUpTo(DeviceEntries, 1) }
        \cup MalformedResponses

PutResponses == { Envelope(<<>>, <<>>), Envelope(<<ErrorJson(3)>>, <<>>), JNull }

\* what the user may type as the id-or-name argument
Tokens ==
    { <<>>, <<"k">>, <<"A">>, <<"x">>, <<"d">>, <<"h">>, <<"q">>, <<"K", "a">> }

\* --dim: clap accepts 0..=100 only
ClapDimLevels == { None } \cup { Some(n) : n \in 0..ClapDimMax }
\* Option<u8>
U8DimLevels == { None } \cup { Some(n) : n \in 0..U8Max }

----------------------------------------------------------------------------
(* Requests                                                                *)

Request(method, path) == [method |-> method, path |-> path]

TransportError == HueError("transport", Some("transport"))

NoValue == [kind |-> "unset", t |-> "unset"]

Init ==
    /\ pc = "main"
    /\ sent = <<>>
    /\ response = NoValue
    /\ errors = NoValue
    /\ devices = NoValue
    /\ id_or_name = NoValue
    /\ light = NoValue
    /\ args = NoValue
    /\ body = NoValue
    /\ outcome = NoValue

\* main without --bridge, with no subcommand, or light with neither --on nor --off
Usage ==
    /\ pc = "main"
    /\ \E msg \in {"No Hue Bridge IP address provided.",
                   "No subcommand provided. Please provide a subcommand.",
                   "Must specify either --on or --off"} :
          outcome' = HueError(msg, None)
    /\ pc' = "exit"
    /\ UNCHANGED <<sent, response, errors, devices, id_or_name, light, args, body>>

\* create_key, up to the answer of post_request
CreateKeyPost ==
    /\ pc = "main"
    /\ sent' = Append(sent, Request("POST", "/api"))
    /\ \/ /\ outcome' = TransportError
          /\ pc' = "exit"
          /\ UNCHANGED response
       \/ /\ response' \in LegacyResponses
          /\ pc' = "create_key"
          /\ UNCHANGED outcome
    /\ UNCHANGED <<errors, devices, id_or_name, light, args, body>>

\* create_key, from parse_create_key_response on
CreateKeyParse ==
    /\ pc = "create_key"
    /\ errors' = parse_api_response_errors(response)
    /\ LET parsed == parse_create_key_response(response)
       IN  outcome' = IF parsed.kind = "Ok"
                      THEN Ok([user_name |-> "hue_lab_user", client_key |-> parsed.v.user_name])
                      ELSE parsed
    /\ pc' = "exit"
    /\ UNCHANGED <<sent, response, devices, id_or_name, light, args, body>>

\* get_request for /clip/v2/resource/device, from list_devices
GetDevices(next) ==
    /\ sent' = Append(sent, Request("GET", "/clip/v2/resource/device"))
    /\ \/ /\ outcome' = TransportError
          /\ pc' = "exit"
          /\ UNCHANGED response
       \/ /\ response' \in DeviceResponses
          /\ pc' = next
          /\ UNCHANGED outcome
    /\ UNCHANGED <<errors, devices, id_or_name, light, args, body>>

\* the list subcommand, up to the answer of get_request
ListGet ==
    /\ pc = "main"
    /\ GetDevices("list")

\* the list subcommand, from parse_list_devices_response on
ListParse ==
    /\ pc = "list"
    /\ devices' = parse_list_devices_response(response)
    /\ outcome' = IF devices'.kind = "Ok" THEN Ok("printed") ELSE devices'
    /\ pc' = "exit"
    /\ UNCHANGED <<sent, response, errors, id_or_name, light, args, body>>

\* the light subcommand with --on or --off, up to the answer of get_request
LightGet ==
    /\ pc = "main"
    /\ GetDevices("light_list")

\* list_devices in find_light_by_id_or_name returns
LightListParse ==
    /\ pc = "light_list"
    /\ devices' = parse_list_devices_response(response)
    /\ IF devices'.kind = "Ok"
       THEN pc' = "find" /\ UNCHANGED outcome
       ELSE pc' = "exit" /\ outcome' = devices'
    /\ UNCHANGED <<sent, response, errors, id_or_name, light, args, body>>

\* the rest of find_light_by_id_or_name
LightFind ==
    /\ pc = "find"
    /\ \E token \in Tokens :
          /\ id_or_name' = token
          /\ light' = find_light_by_id_or_name(devices.v, token)
    /\ IF light'.kind = "Ok"
       THEN pc' = "control" /\ UNCHANGED outcome
       ELSE pc' = "exit" /\ outcome' = light'
    /\ response' = NoValue
    /\ UNCHANGED <<sent, errors, devices, args, body>>

\* control_light sending the PUT a second time when the first one fails
ControlLight_resending(levels) ==
    /\ pc = "control"
    /\ \E on \in BOOLEAN, dimming_level \in levels :
          /\ args' = [on |-> on, dimming_level |-> dimming_level]
          /\ body' = LightControlRequestBody(on, LightDimmingState(dimming_level))
    /\ \/ /\ outcome' = TransportError
          /\ sent' = sent \o << Request("PUT", Format("/clip/v2/resource/light/{}", <<light.v>>)),
                                Request("PUT", Format("/clip/v2/resource/light/{}", <<light.v>>)) >>
          /\ UNCHANGED response
       \/ /\ response' \in PutResponses
          /\ sent' = Append(sent, Request("PUT", Format("/clip/v2/resource/light/{}", <<light.v>>)))
          /\ outcome' = Ok("Light state updated successfully")
    /\ pc' = "exit"
    /\ devices' = NoValue
    /\ UNCHANGED <<errors, id_or_name, light>>

\* control_light with its put_request
ControlLight(levels) ==
    /\ pc = "control"
    /\ \E on \in BOOLEAN, dimming_level \in levels :
          /\ args' = [on |-> on, dimming_level |-> dimming_level]
          /\ body' = LightControlRequestBody(on, LightDimmingState(dimming_level))
    /\ sent' = Append(sent, Request("PUT", Format("/clip/v2/resource/light/{}", <<light.v>>)))
    /\ \/ /\ outcome' = TransportError
          /\ UNCHANGED response
       \/ /\ response' \in PutResponses
          /\ outcome' = Ok("Light state updated successfully")
    /\ pc' = "exit"
    /\ devices' = NoValue
    /\ UNCHANGED <<errors, id_or_name, light>>

Next ==
    \/ Usage
    \/ CreateKeyPost
    \/ CreateKeyParse
    \/ ListGet
    \/ ListParse
    \/ LightGet
    \/ LightListParse
    \/ LightFind
    \/ ControlLight(ClapDimLevels)

Spec == Init /\ [][Next]_vars

\* control_light called on its own, with any Option<u8>
InitControlLight ==
    /\ pc = "control"
    /\ sent = <<>>
    /\ response = NoValue
    /\ errors = NoValue
    /\ devices = NoValue
    /\ id_or_name = NoValue
    /\ light \in { Ok(<<"x">>), Ok(<<"k">>) }
    /\ args = NoValue
    /\ body = NoValue
    /\ outcome = NoValue

NextControlLight == ControlLight(U8DimLevels)

SpecControlLight == InitControlLight /\ [][NextControlLight]_vars

----------------------------------------------------------------------------
(* Claims about the legacy envelope (create-key).                          *)

\* create_key has parsed the bridge's answer to POST /api
CreateKeyParsed == pc = "exit" /\ errors.kind # "unset"

\* the positions of the elements that are objects with an `error` key
ErrorPositions(json) ==
    IF is_array(json)
    THEN { i \in 1..Len(json.a) : json.a[i].t = "object" /\ "error" \in DOMAIN json.a[i].o }
    ELSE {}

\* the i-th smallest member of a finite set of numbers
RECURSIVE Nth(_, _)
Nth(S, i) ==
    LET m == CHOOSE x \in S : \A y \in S : x <= y
    IN  IF i = 1 THEN m ELSE Nth(S \ {m}, i - 1)

\* C1: parse_api_response_errors returns, for an array, exactly one error
\* (code, address, description) per element that is an object with an `error`
\* key, in input order, and nothing for any other element; for a value that is
\* not an array it returns the empty sequence.
C1_OneErrorPerErrorElement ==
    CreateKeyParsed =>
        /\ errors.kind = "Vec"
        /\ Len(errors.vec) = Cardinality(ErrorPositions(response))
        /\ \A i \in 1..Len(errors.vec) :
              LET e == response.a[Nth(ErrorPositions(response), i)].o["error"]
              IN  errors.vec[i] = [type_value |-> Field(e, "type", 1).n,
                                     address |-> Field(e, "address", 2).s,
                                     description |-> Field(e, "description", 3).s]

\* C2: whenever the legacy array holds at least one error entry,
\* parse_create_key_response fails and the cause is the first error entry in
\* input order, whatever `success` entries the array holds.
C2_FirstErrorIsCause ==
    (CreateKeyParsed /\ ErrorPositions(response) # {}) =>
        /\ outcome.kind = "Err"
        /\ outcome.msg = "Could not create key."
        /\ outcome.cause.some
        /\ LET e == response.a[Nth(ErrorPositions(response), 1)].o["error"]
           IN  outcome.cause.v = [type_value |-> Field(e, "type", 1).n,
                                  address |-> Field(e, "address", 2).s,
                                  description |-> Field(e, "description", 3).s]

\* the value is a one-element sequence whose element is an object with `success`
OneSuccessElement(json) ==
    /\ is_array(json)
    /\ Len(json.a) = 1
    /\ json.a[1].t = "object"
    /\ "success" \in DOMAIN json.a[1].o

\* C3: for every raw value without error entries parse_create_key_response
\* returns a result: success with the embedded username when the value is a
\* one-element sequence whose element is an object with a `success` key, and a
\* returned failure in every other case.
C3_ReturnsResultWithoutErrors ==
    (CreateKeyParsed /\ ErrorPositions(response) = {}) =>
        /\ outcome.kind \in {"Ok", "Err"}
        /\ outcome.kind = "Ok" =>
              /\ OneSuccessElement(response)
              /\ response.a[1].o["success"].t = "object"
              /\ outcome.v.client_key = response.a[1].o["success"].o["username"].s
        /\ ~OneSuccessElement(response) => outcome.kind = "Err"

----------------------------------------------------------------------------
(* Claims about the v2 envelope (device list).                             *)

\* list_devices has parsed the bridge's answer to the GET
ListParsed == devices.kind # "unset" /\ response.t # "unset"

\* the member of an object under a key, when it is an array
ArrayMember(json, key) ==
    IF json.t = "object" /\ key \in DOMAIN json.o /\ json.o[key].t = "array"
    THEN json.o[key].a
    ELSE <<>>

StringMember(json, key) ==
    json.t = "object" /\ key \in DOMAIN json.o /\ json.o[key].t = "string"

\* a data entry with the fields of a device: id, metadata.name,
\* product_data.{model_id, product_name} and services of {rid, rtype}
IsDevicePayload(e) ==
    /\ StringMember(e, "id")
    /\ {"metadata", "product_data", "services"} \subseteq DOMAIN e.o
    /\ StringMember(e.o["metadata"], "name")
    /\ StringMember(e.o["product_data"], "model_id")
    /\ StringMember(e.o["product_data"], "product_name")
    /\ e.o["services"].t = "array"
    /\ \A j \in 1..Len(e.o["services"].a) :
          /\ StringMember(e.o["services"].a[j], "rid")
          /\ StringMember(e.o["services"].a[j], "rtype")

\* an object with an empty `errors` array and a `data` array of device payloads
IsDeviceListEnvelope(json) ==
    /\ json.t = "object"
    /\ {"errors", "data"} \subseteq DOMAIN json.o
    /\ json.o["errors"] = JArr(<<>>)
    /\ json.o["data"].t = "array"
    /\ \A i \in 1..Len(json.o["data"].a) : IsDevicePayload(json.o["data"].a[i])

\* C4: whenever the `errors` sequence of the envelope is non-empty,
\* parse_list_devices_response fails and returns no device, whatever `data`
\* holds; devices are returned only when `errors` is empty.
C4_ErrorsMeanNoDevices ==
    ListParsed =>
        /\ ArrayMember(response, "errors") # <<>> => devices.kind = "Err"
        /\ devices.kind = "Ok" => ArrayMember(response, "errors") = <<>>
        /\ devices.kind \in {"Ok", "Err"}

\* C4's case: errors beside a device payload, and the parse failed
C4_Witness ==
    /\ ListParsed
    /\ ArrayMember(response, "errors") # <<>>
    /\ \E i \in 1..Len(ArrayMember(response, "data")) :
          IsDevicePayload(ArrayMember(response, "data")[i])
    /\ devices.kind = "Err"

\* C5: with an empty `errors` sequence the result has one Device per data
\* entry, in input order, and each Device's light id is the rid of the first
\* service in listed order whose rtype is "light", or none when the entry has
\* no such service.
C5_OneDevicePerEntryFirstLight ==
    (ListParsed /\ IsDeviceListEnvelope(response)) =>
        LET data == response.o["data"].a
        IN  /\ devices.kind = "Ok"
            /\ Len(devices.v) = Len(data)
            /\ \A i \in 1..Len(data) :
                  LET sv == data[i].o["services"].a
                      lights == { j \in 1..Len(sv) : sv[j].o["rtype"].s = <<"l", "i", "g", "h", "t">> }
                  IN  /\ devices.v[i].id = data[i].o["id"].s
                      /\ devices.v[i].name = data[i].o["metadata"].o["name"].s
                      /\ devices.v[i].product_name = data[i].o["product_data"].o["product_name"].s
                      /\ lights = {} => ~devices.v[i].light_id.some
                      /\ \A j \in lights :
                            (\A j2 \in lights : j <= j2) =>
                                /\ devices.v[i].light_id.some
                                /\ devices.v[i].light_id.v = sv[j].o["rid"].s

\* C5's case: two entries, one with two light services of different rids and
\* one with no light service
C5_Witness ==
    /\ ListParsed
    /\ IsDeviceListEnvelope(response)
    /\ devices.kind = "Ok"
    /\ Len(devices.v) = 2
    /\ \E i \in 1..2 :
          LET sv == response.o["data"].a[i].o["services"].a
          IN  /\ Len(sv) = 2
              /\ sv[1].o["rtype"].s = S_light
              /\ sv[2].o["rtype"].s = S_light
              /\ sv[1].o["rid"].s # sv[2].o["rid"].s
              /\ devices.v[i].light_id.some
    /\ \E i \in 1..2 : ~devices.v[i].light_id.some

----------------------------------------------------------------------------
(* Claims about find_light_by_id_or_name.                                  *)

\* find_light_by_id_or_name has returned for the list in devices
Resolved == light.kind # "unset" /\ devices.kind = "Ok"

\* needle occurs in hay when letter case is disregarded
ContainsIgnoringCase(hay, needle) ==
    \E i \in 1..(Len(hay) + 1) :
        /\ i + Len(needle) - 1 <= Len(hay)
        /\ \A k \in 1..Len(needle) : LowerChar(hay[i + k - 1]) = LowerChar(needle[k])

\* the positions of the listed devices that have a light with this id
WithLightId(token) ==
    { i \in 1..Len(devices.v) : devices.v[i].light_id.some /\ devices.v[i].light_id.v = token }

\* the positions of the listed devices that have a light and a name containing token
Candidates(token) ==
    { i \in 1..Len(devices.v) :
        devices.v[i].light_id.some /\ ContainsIgnoringCase(devices.v[i].name, token) }

\* C6: if the argument equals a listed device's light service id verbatim,
\* that id is returned, also when the argument is a case-insensitive substring
\* of the names of other light devices.
C6_ExactIdWins ==
    (Resolved /\ WithLightId(id_or_name) # {}) => light = Ok(id_or_name)

\* C6's case: the argument is one device's light id and occurs in the name of
\* another device whose light has a different id
C6_Witness ==
    /\ Resolved
    /\ \E i \in WithLightId(id_or_name) :
          \E j \in Candidates(id_or_name) :
              j # i /\ devices.v[j].light_id.v # id_or_name
    /\ light = Ok(id_or_name)

\* C7: when no light id equals the argument and more than one device with a
\* light has a name containing it, the call fails, returns no light id, and the
\* failure lists every such device as `name (deviceId)`.
C7_AmbiguityFailsListingAll ==
    (Resolved /\ WithLightId(id_or_name) = {} /\ Cardinality(Candidates(id_or_name)) > 1) =>
        /\ light.kind = "Err"
        /\ light.msg.args[1] = id_or_name
        /\ \A i \in Candidates(id_or_name) :
              contains(light.msg.args[2],
                       devices.v[i].name \o <<" ", "(">> \o devices.v[i].id \o <<")">>)

\* C7's case: two candidates of different names and device ids, and a failure
C7_Witness ==
    /\ Resolved
    /\ WithLightId(id_or_name) = {}
    /\ \E i, j \in Candidates(id_or_name) :
          devices.v[i].id # devices.v[j].id /\ devices.v[i].light_id # devices.v[j].light_id
    /\ light.kind = "Err"

\* C8: when the argument equals no light id and occurs in the name of no
\* device with a light, the call fails with the not-found error, which names
\* the argument unchanged.
C8_NotFoundNamesToken ==
    (Resolved /\ WithLightId(id_or_name) = {} /\ Candidates(id_or_name) = {}) =>
        /\ light.kind = "Err"
        /\ light.msg = Format("No light found with ID or name matching '{}'", <<id_or_name>>)

\* C8's case: an argument with an upper-case letter that matches nothing
\* although lights are listed
C8_Witness ==
    /\ Resolved
    /\ WithLightId(id_or_name) = {}
    /\ Candidates(id_or_name) = {}
    /\ \E i \in 1..Len(devices.v) : devices.v[i].light_id.some
    /\ \E k \in 1..Len(id_or_name) : LowerChar(id_or_name[k]) # id_or_name[k]
    /\ light.kind = "Err"

\* C9: a successful result is a light service id of the list just fetched; a
\* device without a light is never a candidate and never yields a result, even
\* when its name contains the argument or its device id equals the argument.
C9_ResultIsListedLightId ==
    Resolved =>
        /\ light.kind = "Ok" =>
              \E i \in 1..Len(devices.v) :
                  /\ devices.v[i].light_id.some
                  /\ devices.v[i].light_id.v = light.v
                  /\ i \in WithLightId(id_or_name) \cup Candidates(id_or_name)
        /\ (WithLightId(id_or_name) = {} /\ Cardinality(Candidates(id_or_name)) = 1) =>
              \E i \in Candidates(id_or_name) : light = Ok(devices.v[i].light_id.v)
        /\ (\A i \in 1..Len(devices.v) : ~devices.v[i].light_id.some) => light.kind = "Err"

\* C9's case: a device without a light whose name contains the argument stands
\* beside the one light device that matches, and that light is returned
C9_Witness ==
    /\ Resolved
    /\ light.kind = "Ok"
    /\ WithLightId(id_or_name) = {}
    /\ \E i \in 1..Len(devices.v) :
          /\ ~devices.v[i].light_id.some
          /\ ContainsIgnoringCase(devices.v[i].name, id_or_name)

----------------------------------------------------------------------------
(* Claims about control_light.                                             *)

\* control_light has serialized its body
BodySent == pc = "exit" /\ body.t # "unset"

\* C10: the serialized PUT body has the `dimming` key exactly when a
\* brightness was requested, its brightness is then the requested level
\* clamped to [0,100], and without a requested brightness it holds only `on`.
C10_DimmingOnlyWhenRequestedClamped ==
    BodySent =>
        /\ body.t = "object"
        /\ "on" \in DOMAIN body.o
        /\ body.o["on"] = JObj([k \in {"on"} |-> JBool(args.on)])
        /\ ("dimming" \in DOMAIN body.o) <=> args.dimming_level.some
        /\ ~args.dimming_level.some => DOMAIN body.o = {"on"}
        /\ args.dimming_level.some =>
              /\ DOMAIN body.o = {"on", "dimming"}
              /\ DOMAIN body.o["dimming"].o = {"brightness"}
              /\ body.o["dimming"].o["brightness"].t = "number"
              /\ body.o["dimming"].o["brightness"].n \in 0..100
              /\ args.dimming_level.v <= 100 =>
                    body.o["dimming"].o["brightness"].n = args.dimming_level.v
              /\ args.dimming_level.v > 100 => body.o["dimming"].o["brightness"].n = 100

\* C10's case: a level above 100 was requested and 100 was sent
C10_Witness ==
    /\ BodySent
    /\ args.dimming_level.some
    /\ args.dimming_level.v > 100
    /\ body.o["dimming"].o["brightness"].n = 100

\* C11: when the bridge answers the PUT with a 2xx status and an envelope
\* whose `errors` sequence is non-empty, control_light returns a failure; it
\* reports success only when the answer carries no errors.
C11_PutErrorsFail ==
    BodySent =>
        /\ ArrayMember(response, "errors") # <<>> => outcome.kind = "Err"
        /\ outcome.kind = "Ok" => ArrayMember(response, "errors") = <<>>

----------------------------------------------------------------------------
(* Claims about the requests of one invocation.                            *)

\* the positions in sent of the requests with this method
SentWith(method) == { i \in 1..Len(sent) : sent[i].method = method }

\* C12: a light command issues exactly one device-list GET and then at most
\* one light PUT; the PUT is issued only after find_light_by_id_or_name has
\* returned a light id, so a failure of the resolve step ends the invocation
\* without a PUT; nothing is sent again after a failure (two requests at most).
C12_OneGetThenAtMostOnePut ==
    /\ Len(sent) <= 2
    /\ Cardinality(SentWith("GET")) <= 1
    /\ Cardinality(SentWith("PUT")) <= 1
    /\ pc \in {"light_list", "find", "control"} =>
          sent = <<Request("GET", "/clip/v2/resource/device")>>
    /\ SentWith("PUT") # {} =>
          /\ Len(sent) = 2
          /\ sent[1].method = "GET"
          /\ sent[1].path = "/clip/v2/resource/device"
          /\ sent[2].method = "PUT"
          /\ light.kind = "Ok"
          /\ sent[2].path = Format("/clip/v2/resource/light/{}", <<light.v>>)
    /\ light.kind = "Err" =>
          /\ pc = "exit"
          /\ outcome.kind = "Err"
          /\ sent = <<Request("GET", "/clip/v2/resource/device")>>
    /\ outcome.kind \in {"Err", "Panic"} => (pc = "exit" /\ ~ENABLED Next)

\* C12's case: the GET and the resolver succeeded, the PUT failed in the
\* transport, and the invocation ended with those two requests
C12_Witness ==
    /\ pc = "exit"
    /\ light.kind = "Ok"
    /\ outcome.kind = "Err"
    /\ Len(sent) = 2
    /\ sent[1].method = "GET"
    /\ sent[2].method = "PUT"

----------------------------------------------------------------------------
(* Claims about invoking the resolver again after an ambiguity.            *)

\* C13: for every candidate listed in an ambiguity failure, calling
\* find_light_by_id_or_name again on the same device list with the identifier
\* printed for that candidate resolves, by exact match, to that candidate's
\* light service id.
C13_PrintedIdResolves ==
    (Resolved /\ WithLightId(id_or_name) = {} /\ Cardinality(Candidates(id_or_name)) > 1) =>
        \A i \in Candidates(id_or_name) :
            /\ contains(light.msg.args[2],
                        devices.v[i].name \o <<" ", "(">> \o devices.v[i].id \o <<")">>)
            /\ WithLightId(devices.v[i].id) # {}
            /\ find_light_by_id_or_name(devices.v, devices.v[i].id) = Ok(devices.v[i].light_id.v)

=============================================================================
